---- MODULE Spec2Model ----
(***************************************************************************)
(* A model of the YouTube Shorts facts pipeline:                           *)
(*   src/utils/video_creator.py    word grouping, overlap resolver, text   *)
(*                                 wrapper, background framing, subtitle   *)
(*                                 clips with the font fallback            *)
(*   src/utils/script_generator.py script generation with retries and the  *)
(*                                 fact history                            *)
(*   src/pipeline.py               the sequential run and the exit status  *)
(*                                                                         *)
(* Each component has its own specification (SpecGroups, SpecTiming, ...): *)
(* its Init draws the component's inputs step by step from bounded sets    *)
(* and its actions apply the component's code to them.  The variables of   *)
(* the other components stay at their idle values.                         *)
(*                                                                         *)
(* Text is a sequence of one-character strings, so that strip(), split()   *)
(* and endswith() are computed and not assumed.  Times are whole numbers   *)
(* of tenths of a second (0.1 s = 1), exact for every constant of the code.*)
(***************************************************************************)
EXTENDS Integers, Sequences, FiniteSets, TLC

VARIABLES
    \* _create_word_groups
    words,            \* the segment's words, in order (each a dict with "word")
    groups,           \* the returned list of groups
    pcG,              \* "input" while the segment is built, "done" after the call
    \* _fix_timing_overlaps
    segments,         \* the RawCues handed in
    fixed_segments,   \* the TimedCues returned
    pcT,
    \* _smart_text_wrap
    text,             \* the cue text
    max_chars_per_line,
    wrapped_text,     \* the returned string, lines joined by "\n"
    pcW,
    \* _resize_to_shorts_format_with_random_start
    background_duration,
    required_duration,
    random_start,     \* the chosen offset, or NoStart when none is chosen
    framed,           \* the returned clip
    pcF,
    \* ScriptGenerator
    topics,           \* self.topics, the list object of Config.AVAILABLE_TOPICS
    facts_data,       \* self.facts_data["facts_by_topic"]: topic -> list of entries
    facts_file,       \* generated_facts.json on disk
    topic,            \* the topic of the generate_script call in progress
    attempt,          \* the loop variable of "for attempt in range(MAX_RETRIES)"
    script_data,      \* what the call returned, NoScript when nothing
    pcS,
    \* history of the generate_script call in progress
    api_calls,        \* the topics of the prompts sent to the API, in order
    good_unreturned,  \* an attempt of this call gave a complete script with a
                      \* fact that was no duplicate, and the call went on
    topic_arg,        \* the topic argument of the call, NoTopic for None
    facts_at_call,    \* self.facts_data["facts_by_topic"] when the call began
    file_at_call,     \* generated_facts.json when the call began
    \* pipeline.py: main and run_pipeline
    config,           \* self.config: gemini_api_key, background_video_name
    input_folder,     \* the files of the input folder
    background_video_path,
    vstep,            \* the position inside create_youtube_short
    success,          \* what create_youtube_short returned
    result,           \* what run_pipeline returned
    exit_status,      \* "running", "0" or "1"
    pcP,
    \* history of the run
    calls,            \* the stages started, in order
    failed_at,        \* the stage that failed, "none" when none did
    interrupted,      \* the user interrupted the run
    video_written,    \* write_videofile completed
    \* _create_vibrant_subtitles: the loop over the TimedCues
    timed_cues,       \* fixed_segments, the cues the loop goes through
    cue_index,        \* the position of "for segment in fixed_segments"
    font_index,       \* the position of "for font in self.safe_fonts"
    subtitle_clips,   \* the list the method returns
    pcC,
    \* history of the loop
    tried,            \* per cue started: the TextClip calls made and how they ended
    warnings          \* the cues a warning was printed for, in order

gvars == <<words, groups, pcG>>
tvars == <<segments, fixed_segments, pcT>>
wvars == <<text, max_chars_per_line, wrapped_text, pcW>>
fvars == <<background_duration, required_duration, random_start, framed, pcF>>
svars == <<topics, facts_data, facts_file, topic, attempt, script_data, pcS,
           api_calls, good_unreturned, topic_arg, facts_at_call, file_at_call>>
pvars == <<config, input_folder, background_video_path, vstep, success, result,
           exit_status, pcP, calls, failed_at, interrupted, video_written>>
cvars == <<timed_cues, cue_index, font_index, subtitle_clips, pcC, tried,
           warnings>>
vars == <<gvars, tvars, wvars, fvars, svars, pvars, cvars>>

\* what each component leaves alone
notG == <<tvars, wvars, fvars, svars, pvars, cvars>>
notT == <<gvars, wvars, fvars, svars, pvars, cvars>>
notW == <<gvars, tvars, fvars, svars, pvars, cvars>>
notF == <<gvars, tvars, wvars, svars, pvars, cvars>>
notS == <<gvars, tvars, wvars, fvars, pvars, cvars>>
notP == <<gvars, tvars, wvars, fvars, svars, cvars>>
notC == <<gvars, tvars, wvars, fvars, svars, pvars>>

(***************************************************************************)
(* Generic helpers                                                         *)
(***************************************************************************)
Max(a, b) == IF a >= b THEN a ELSE b
Min(a, b) == IF a <= b THEN a ELSE b

Last(s) == s[Len(s)]

RECURSIVE Flatten(_)
\* the concatenation of a sequence of sequences
Flatten(ss) == IF ss = <<>> THEN <<>> ELSE Head(ss) \o Flatten(Tail(ss))

(***************************************************************************)
(* Characters and str methods                                              *)
(***************************************************************************)
Whitespace == {" ", "\n"}

RECURSIVE LStrip(_)
LStrip(s) == IF s # <<>> /\ Head(s) \in Whitespace THEN LStrip(Tail(s)) ELSE s

RECURSIVE RStrip(_)
RStrip(s) ==
    IF s # <<>> /\ Last(s) \in Whitespace THEN RStrip(SubSeq(s, 1, Len(s) - 1)) ELSE s

\* str.strip()
Strip(s) == RStrip(LStrip(s))

\* the tuple given to endswith() in _create_word_groups
GroupPunctuation == {".", "!", "?", ","}

\* str.endswith(tuple of one-character strings)
EndsWithAny(s, chars) == s # <<>> /\ Last(s) \in chars

IsSpaceChar(c) == c \in Whitespace

RECURSIVE RunLen(_, _)
\* the length of the longest prefix of s made of blanks (ws) or of none (~ws)
RunLen(s, ws) ==
    IF s # <<>> /\ (IsSpaceChar(Head(s)) <=> ws) THEN 1 + RunLen(Tail(s), ws) ELSE 0

RECURSIVE SplitWords(_)
\* str.split(): the words of s, separated by whitespace
SplitWords(s) ==
    LET t == LStrip(s) IN
    IF t = <<>> THEN <<>>
    ELSE LET n == RunLen(t, FALSE) IN
         <<SubSeq(t, 1, n)>> \o SplitWords(SubSeq(t, n + 1, Len(t)))

\* str.lower(), on the letters the model uses
LowerChar(c) == IF c = "A" THEN "a" ELSE IF c = "B" THEN "b" ELSE c
Lower(s) == [i \in 1..Len(s) |-> LowerChar(s[i])]

RECURSIVE JoinWith(_, _)
\* sep.join(parts)
JoinWith(parts, sep) ==
    IF parts = <<>> THEN <<>>
    ELSE IF Len(parts) = 1 THEN Head(parts)
    ELSE Head(parts) \o sep \o JoinWith(Tail(parts), sep)

Range(f) == {f[i] : i \in DOMAIN f}

(***************************************************************************)
(* Word Grouping: VideoCreator._create_word_groups                         *)
(***************************************************************************)
MaxWords == 8

MaxGroupLen == 7
MinPunctGroupLen == 4

\* the texts a transcribed word is drawn from: plain, with leading and
\* trailing blanks around the punctuation, punctuation inside the word only,
\* and an exclamation
WordTexts == { <<"a">>,
               <<" ", "b", ",", " ">>,
               <<".", "c">>,
               <<" ", "d", "!">> }

Word(t) == [word |-> t]

\* word["word"].strip().endswith(('.', '!', '?', ','))
EndsWithPunctuation(word) == EndsWithAny(Strip(word.word), GroupPunctuation)

\* (mutant: punctuation already closes a group of 3 words)
GroupStepMutant(st, word) ==
    LET cur == Append(st.current_group, word) IN
    IF Len(cur) >= MaxGroupLen
    THEN [groups |-> Append(st.groups, cur), current_group |-> <<>>]
    ELSE IF Len(cur) >= MinPunctGroupLen - 1 /\ EndsWithPunctuation(word)
    THEN [groups |-> Append(st.groups, cur), current_group |-> <<>>]
    ELSE [groups |-> st.groups, current_group |-> cur]
\* one iteration of the for loop: st = [groups, current_group]
GroupStep(st, word) ==
    LET cur == Append(st.current_group, word) IN
    IF Len(cur) >= MaxGroupLen
    THEN [groups |-> Append(st.groups, cur), current_group |-> <<>>]
    ELSE IF Len(cur) >= MinPunctGroupLen /\ EndsWithPunctuation(word)
    THEN [groups |-> Append(st.groups, cur), current_group |-> <<>>]
    ELSE [groups |-> st.groups, current_group |-> cur]

RECURSIVE GroupLoop(_, _)
GroupLoop(st, ws) ==
    IF ws = <<>> THEN st ELSE GroupLoop(GroupStep(st, Head(ws)), Tail(ws))

\* (mutant: the leftover group is forgotten)
FlushGroupMutant(st) == st.groups
\* "if current_group: groups.append(current_group)"
FlushGroup(st) ==
    IF st.current_group # <<>> THEN Append(st.groups, st.current_group) ELSE st.groups

CreateWordGroups(ws) ==
    FlushGroup(GroupLoop([groups |-> <<>>, current_group |-> <<>>], ws))

IdleGroups == words = <<>> /\ groups = <<>> /\ pcG = "idle"

\* the transcription delivers one more word of the segment
AddWord ==
    /\ pcG = "input"
    /\ Len(words) < MaxWords
    /\ \E t \in WordTexts : words' = Append(words, Word(t))
    /\ UNCHANGED <<groups, pcG, notG>>

\* word_groups = self._create_word_groups(words)
CallCreateWordGroups ==
    /\ pcG = "input"
    /\ groups' = CreateWordGroups(words)
    /\ pcG' = "done"
    /\ UNCHANGED <<words, notG>>

(***************************************************************************)
(* Overlap Resolver: VideoCreator._fix_timing_overlaps                     *)
(* times in tenths of a second                                             *)
(***************************************************************************)
MaxCues == 2

\* self.min_gap_between_text = 0.1, self.min_display_time = 1.0,
\* self.max_display_time = 3.0, and the 0.5 of the shrink step
MinGapBetweenText == 1
MinDisplayTime == 10
MaxDisplayTime == 30
ShrinkFloor == 5

CueTexts == {"t1", "t2"}
\* next.start - this.start of consecutive raw cues (negative: out of order)
StartGaps == {-2, 0, 3, 6, 10, 11, 21, 40}
\* end - start of a raw cue (negative and zero: timing anomalies)
RawLengths == {-1, 0, 8, 20, 35}

RawCue(t, s, e) == [text |-> t, start |-> s, end |-> e]

\* ideal_duration = max(min_display_time, min(max_display_time, end - start))
IdealDuration(segment) ==
    Max(MinDisplayTime, Min(MaxDisplayTime, segment.end - segment.start))

\* (mutant: the successor is never looked at)
ShrinkForNextMutant(segs, i, ideal) == ideal
\* (mutant: the cue is cut back to the successor's start, the gap is lost)
ShrinkNoGapMutant(segs, i, ideal) ==
    IF i < Len(segs)
    THEN LET max_end_time == segs[i + 1].start
         IN  IF segs[i].start + ideal > max_end_time
             THEN Max(ShrinkFloor, max_end_time - segs[i].start)
             ELSE ideal
    ELSE ideal
\* the "if i < len(segments) - 1" block
ShrinkForNext(segs, i, ideal) ==
    IF i < Len(segs)
    THEN LET next_start == segs[i + 1].start
             max_end_time == next_start - MinGapBetweenText
         IN  IF segs[i].start + ideal > max_end_time
             THEN Max(ShrinkFloor, max_end_time - segs[i].start)
             ELSE ideal
    ELSE ideal

\* (mutant: the duration of the shrink step is stored as it is)
FinalDurationMutant(ideal) == ideal
\* final_duration = max(self.min_display_time, ideal_duration)
FinalDuration(ideal) == Max(MinDisplayTime, ideal)

\* (mutant: a cue is pushed behind the minimum display of its predecessor)
FixedSegmentShiftMutant(segs, i) ==
    [text |-> segs[i].text,
     start |-> IF i > 1 THEN Max(segs[i].start, segs[i - 1].start + MinDisplayTime)
                        ELSE segs[i].start,
     duration |-> FinalDuration(ShrinkForNext(segs, i, IdealDuration(segs[i])))]
\* (mutant: the raw length is stored instead of final_duration)
FixedSegmentRawMutant(segs, i) ==
    [text |-> segs[i].text,
     start |-> segs[i].start,
     duration |-> segs[i].end - segs[i].start]
\* the dict appended for segment i (1-based here)
FixedSegment(segs, i) ==
    [text |-> segs[i].text,
     start |-> segs[i].start,
     duration |-> FinalDuration(ShrinkForNext(segs, i, IdealDuration(segs[i])))]

FixTimingOverlaps(segs) ==
    IF segs = <<>> THEN <<>> ELSE [i \in 1..Len(segs) |-> FixedSegment(segs, i)]

IdleTiming == segments = <<>> /\ fixed_segments = <<>> /\ pcT = "idle"

\* text_segments.append({...}) for the first group
AddFirstCue ==
    /\ pcT = "input"
    /\ segments = <<>>
    /\ \E t \in CueTexts, l \in RawLengths :
           segments' = <<RawCue(t, 0, l)>>
    /\ UNCHANGED <<fixed_segments, pcT, notT>>

\* text_segments.append({...}) for a later group
AddNextCue ==
    /\ pcT = "input"
    /\ segments # <<>>
    /\ Len(segments) < MaxCues
    /\ \E t \in CueTexts, g \in StartGaps, l \in RawLengths :
           LET s == Last(segments).start + g IN
           segments' = Append(segments, RawCue(t, s, s + l))
    /\ UNCHANGED <<fixed_segments, pcT, notT>>

\* fixed_segments = self._fix_timing_overlaps(text_segments)
CallFixTimingOverlaps ==
    /\ pcT = "input"
    /\ fixed_segments' = FixTimingOverlaps(segments)
    /\ pcT' = "done"
    /\ UNCHANGED <<segments, notT>>

(***************************************************************************)
(* Text Wrapper: VideoCreator._smart_text_wrap                             *)
(* textwrap.wrap(text, width, break_long_words=False,                      *)
(*               break_on_hyphens=False), as TextWrapper computes it       *)
(***************************************************************************)
MaxTextLen == 8
MaxWidth == 4

TextChars == {"a", "b", " "}

\* TextWrapper._munge_whitespace: every whitespace character becomes a blank
MungeWhitespace(s) == [i \in 1..Len(s) |-> IF IsSpaceChar(s[i]) THEN " " ELSE s[i]]

RECURSIVE SplitChunks(_)
\* TextWrapper._split with wordsep_simple_re: runs of whitespace and runs of
\* anything else, alternating, none empty
SplitChunks(s) ==
    IF s = <<>> THEN <<>>
    ELSE LET n == RunLen(s, IsSpaceChar(Head(s))) IN
         <<SubSeq(s, 1, n)>> \o SplitChunks(SubSeq(s, n + 1, Len(s)))

\* chunk.strip() == ''
IsBlank(chunk) == \A i \in 1..Len(chunk) : IsSpaceChar(chunk[i])

RECURSIVE ChunksLen(_)
ChunksLen(cs) == IF cs = <<>> THEN 0 ELSE Len(Head(cs)) + ChunksLen(Tail(cs))

RECURSIVE FillLine(_, _, _)
\* the inner "while chunks" loop: chunks are taken while they fit
FillLine(chunks, cur_line, width) ==
    IF chunks # <<>> /\ ChunksLen(cur_line) + Len(Head(chunks)) <= width
    THEN FillLine(Tail(chunks), Append(cur_line, Head(chunks)), width)
    ELSE [cur_line |-> cur_line, chunks |-> chunks]

\* (mutant: break_long_words left at its default, the word is cut to fit)
HandleLongWordMutant(f, width) ==
    IF f.chunks # <<>> /\ Len(Head(f.chunks)) > width
    THEN LET chunk == Head(f.chunks)
             space_left == IF width < 1 THEN 1 ELSE width - ChunksLen(f.cur_line)
         IN  [cur_line |-> Append(f.cur_line, SubSeq(chunk, 1, space_left)),
              chunks |-> <<SubSeq(chunk, space_left + 1, Len(chunk))>> \o Tail(f.chunks)]
    ELSE f
\* TextWrapper._handle_long_word with break_long_words=False: a chunk wider
\* than the line goes on a line of its own, and only on an empty one
HandleLongWord(f, width) ==
    IF f.chunks # <<>> /\ Len(Head(f.chunks)) > width /\ f.cur_line = <<>>
    THEN [cur_line |-> <<Head(f.chunks)>>, chunks |-> Tail(f.chunks)]
    ELSE f

\* drop_whitespace at the end of a line
DropTrailingBlank(cur_line) ==
    IF cur_line # <<>> /\ IsBlank(Last(cur_line))
    THEN SubSeq(cur_line, 1, Len(cur_line) - 1)
    ELSE cur_line

RECURSIVE WrapChunks(_, _, _)
\* TextWrapper._wrap_chunks: one round of the outer "while chunks" loop
WrapChunks(chunks, width, lines) ==
    IF chunks = <<>> THEN lines
    ELSE LET start == IF IsBlank(Head(chunks)) /\ lines # <<>>
                      THEN Tail(chunks) ELSE chunks
             h == HandleLongWord(FillLine(start, <<>>, width), width)
             cur_line == DropTrailingBlank(h.cur_line)
         IN  WrapChunks(h.chunks, width,
                        IF cur_line # <<>> THEN Append(lines, Flatten(cur_line))
                                           ELSE lines)

\* return '\n'.join(wrapped_lines)
SmartTextWrap(t, width) ==
    JoinWith(WrapChunks(SplitChunks(MungeWhitespace(t)), width, <<>>), <<"\n">>)

IdleWrap == text = <<>> /\ max_chars_per_line = 0 /\ wrapped_text = <<>> /\ pcW = "idle"

\* one more character of the cue text
AddChar ==
    /\ pcW = "input"
    /\ Len(text) < MaxTextLen
    /\ \E c \in TextChars : text' = Append(text, c)
    /\ UNCHANGED <<max_chars_per_line, wrapped_text, pcW, notW>>

\* wrapped_text = self._smart_text_wrap(text, style["max_chars_per_line"])
CallSmartTextWrap ==
    /\ pcW = "input"
    /\ \E w \in 1..MaxWidth :
           /\ max_chars_per_line' = w
           /\ wrapped_text' = SmartTextWrap(text, w)
    /\ pcW' = "done"
    /\ UNCHANGED <<text, notW>>

(***************************************************************************)
(* Background Framing:                                                     *)
(* VideoCreator._resize_to_shorts_format_with_random_start, the timing     *)
(* (lines 116-140); durations and offsets on a grid of time steps          *)
(***************************************************************************)
MaxDuration == 8

NoStart == -1

\* video_resized.loop(duration=required_duration)
LoopClip(duration) == [kind |-> "loop", from |-> 0, to |-> duration, duration |-> duration]
\* video_resized.subclipped(random_start, end_time)
Subclipped(start_time, end_time) ==
    [kind |-> "subclip", from |-> start_time, to |-> end_time,
     duration |-> end_time - start_time]

\* (mutant: the offset is drawn from the whole source)
StartChoicesMutant(max_start_time) ==
    IF max_start_time <= 0 THEN {0} ELSE 0..(max_start_time + 1)
\* the values random_start can take: 0 when there is no room, else
\* random.uniform(0, max_start_time)
StartChoices(max_start_time) ==
    IF max_start_time <= 0 THEN {0} ELSE 0..max_start_time

IdleFraming ==
    /\ background_duration = 0 /\ required_duration = 0
    /\ random_start = NoStart /\ framed = <<>> /\ pcF = "idle"

\* the background video and the speech audio are loaded
LoadClips ==
    /\ pcF = "input"
    /\ \E d \in 1..MaxDuration, t \in 1..MaxDuration :
           /\ background_duration' = d
           /\ required_duration' = t
    /\ pcF' = "loaded"
    /\ UNCHANGED <<random_start, framed, notF>>

\* background_duration < required_duration: the source is looped
ResizeLoop ==
    /\ pcF = "loaded"
    /\ background_duration < required_duration
    /\ framed' = LoopClip(required_duration)
    /\ pcF' = "done"
    /\ UNCHANGED <<background_duration, required_duration, random_start, notF>>

\* otherwise a window of required_duration is cut out at a random start
ResizeSubclip ==
    /\ pcF = "loaded"
    /\ ~(background_duration < required_duration)
    /\ \E r \in StartChoices(background_duration - required_duration) :
           /\ random_start' = r
           /\ framed' = Subclipped(r, r + required_duration)
    /\ pcF' = "done"
    /\ UNCHANGED <<background_duration, required_duration, notF>>

(***************************************************************************)
(* Script generation: ScriptGenerator (src/utils/script_generator.py)      *)
(***************************************************************************)
NumTopics == 1
MaxStored == 2

\* Config.MAX_RETRIES and Config.SIMILARITY_THRESHOLD = 0.7 = 7/10
MAX_RETRIES == 3
ThresholdNum == 7
ThresholdDen == 10

\* Config.AVAILABLE_TOPICS as the module defines it
ConfigTopics ==
    << "Space and Astronomy", "Ocean and Marine Life", "Human Body",
       "Ancient History", "Technology", "Animals", "Food and Nutrition",
       "Psychology", "Geography", "Science Discoveries", "Art and Culture",
       "Sports", "Music", "Weather and Climate", "Inventions",
       "Amazing Nature Facts", "Mind-Blowing Physics", "Historical Mysteries",
       "Future Technology", "Bizarre World Records" >>

\* the leading NumTopics entries stand for the list
AVAILABLE_TOPICS == SubSeq(ConfigTopics, 1, Min(NumTopics, Len(ConfigTopics)))

\* topics a caller passes that are not in the list
CustomTopics == {"Deep Sea Volcanoes"}

\* topic=None
NoTopic == "<None>"
\* no script returned
NoScript == [topic |-> NoTopic, fact |-> <<>>]

\* a sentence from its words
Sentence(ws) == JoinWith(ws, <<" ">>)

\* facts the model may answer with: 7 words, 10 words holding those 7
\* (similarity exactly 0.7), 8 words holding those 7 (0.875 and 0.8), the
\* empty fact, and an unrelated one with a repeated word
FactTexts ==
    { Sentence(<< <<"A">>, <<"b">>, <<"c">>, <<"d">>, <<"e">>, <<"f">>, <<"g">> >>),
      Sentence(<< <<"a">>, <<"b">>, <<"c">>, <<"d">>, <<"e">>, <<"f">>, <<"g">>,
                  <<"h">>, <<"i">>, <<"j">> >>),
      Sentence(<< <<"a">>, <<"B">>, <<"c">>, <<"d">>, <<"e">>, <<"f">>, <<"g">>,
                  <<"h">> >>),
      <<>>,
      Sentence(<< <<"x">>, <<"y">>, <<"x">> >>) }

\* a line of the response, by the label its stripped text starts with and
\* the stripped rest
Line(label, body) == [label |-> label, body |-> body]
PartOfLabel(label) ==
    CASE label = "HOOK:" -> "hook"
      [] label = "FACT:" -> "fact"
      [] label = "EXPLANATION:" -> "explanation"
      [] label = "CTA:" -> "cta"
      [] OTHER -> "none"

FullScript(fact) ==
    << Line("", <<"s">>), Line("HOOK:", <<"h">>), Line("FACT:", fact),
       Line("EXPLANATION:", <<"e">>), Line("CTA:", <<"c">>) >>
ScriptWithoutCta(fact) ==
    << Line("HOOK:", <<"h">>), Line("FACT:", fact), Line("EXPLANATION:", <<"e">>) >>

\* what client.chat.completions.create can come back with: an exception, a
\* response without choices, or a response with content
ApiOutcomes ==
    { [kind |-> "exception", content |-> <<>>], [kind |-> "empty", content |-> <<>>] }
    \cup { [kind |-> "content", content |-> FullScript(f)] : f \in FactTexts }
    \cup { [kind |-> "content", content |-> ScriptWithoutCta(<<>>)] }

RECURSIVE ParseScriptContent(_, _)
\* _parse_script_content: script_parts[part] = body, a later line wins
ParseScriptContent(lines, script_parts) ==
    IF lines = <<>> THEN script_parts
    ELSE LET l == Head(lines)
             part == PartOfLabel(l.label)
         IN  ParseScriptContent(
                 Tail(lines),
                 IF part = "none" THEN script_parts
                 ELSE [q \in (DOMAIN script_parts) \cup {part} |->
                          IF q = part THEN l.body ELSE script_parts[q]])

EmptyDict == [q \in {} |-> <<>>]

required_parts == {"hook", "fact", "explanation", "cta"}

\* all(part in script_parts for part in required_parts)
HasAllParts(script_parts) == required_parts \subseteq DOMAIN script_parts

\* facts_by_topic.get(topic, [])
EntriesOf(data, t) == IF t \in DOMAIN data THEN data[t] ELSE <<>>

\* get_existing_facts
GetExistingFacts(data, t) ==
    LET es == EntriesOf(data, t) IN [i \in 1..Len(es) |-> es[i].fact]

\* (mutant: the words are compared as written, without lower())
WordSetMutant(fact) == Range(SplitWords(fact))
\* set(fact.lower().split())
WordSet(fact) == Range(SplitWords(Lower(fact)))

\* the word sets of the facts of the model, computed once
WordSets == [f \in FactTexts |-> WordSet(f)]

\* intersection / union > Config.SIMILARITY_THRESHOLD, when union > 0
TooSimilar(new_fact, existing_fact) ==
    LET new_fact_words == WordSets[new_fact]
        existing_words == WordSets[existing_fact]
        intersection == Cardinality(new_fact_words \cap existing_words)
        union == Cardinality(new_fact_words \cup existing_words)
    IN  union > 0 /\ intersection * ThresholdDen > ThresholdNum * union

\* is_fact_duplicate
IsFactDuplicate(data, new_fact, t) ==
    LET existing_facts == GetExistingFacts(data, t) IN
    \E i \in 1..Len(existing_facts) : TooSimilar(new_fact, existing_facts[i])

\* _save_script_to_database, up to the save: the entry is appended in memory
AppendEntry(data, t, main_fact) ==
    [q \in (DOMAIN data) \cup {t} |->
        IF q = t THEN Append(EntriesOf(data, t), [fact |-> main_fact]) ELSE data[q]]

\* generated_facts.json
MissingFile == [kind |-> "missing", facts |-> EmptyDict]
CorruptFile == [kind |-> "corrupt", facts |-> EmptyDict]
JsonFile(data) == [kind |-> "json", facts |-> data]

\* load_facts: the file's content, or the empty history when there is no
\* file or it cannot be parsed
LoadFacts(file) == IF file.kind = "json" THEN file.facts ELSE EmptyDict

\* what save_facts leaves on disk when it raises: open() failed and the file
\* is as it was, or the write broke off after open() truncated it
FailedSaveFiles(file) == {file, CorruptFile}

TotalStored(data) ==
    LET RECURSIVE Sum(_)
        Sum(S) == IF S = {} THEN 0
                  ELSE LET t == CHOOSE x \in S : TRUE IN Len(data[t]) + Sum(S \ {t})
    IN  Sum(DOMAIN data)

IdleScript ==
    /\ topics = <<>> /\ facts_data = EmptyDict /\ facts_file = MissingFile
    /\ topic = NoTopic /\ attempt = 0 /\ script_data = NoScript /\ pcS = "off"
    /\ api_calls = <<>> /\ good_unreturned = FALSE
    /\ topic_arg = NoTopic /\ facts_at_call = EmptyDict /\ file_at_call = MissingFile

\* a process starts: utils.config is imported and ScriptGenerator() is built
NewGenerator ==
    /\ pcS \in {"start", "returned", "raised"}
    /\ topics' = AVAILABLE_TOPICS
    /\ facts_data' = LoadFacts(facts_file)
    /\ topic' = NoTopic
    /\ attempt' = 0
    /\ script_data' = NoScript
    /\ api_calls' = <<>>
    /\ good_unreturned' = FALSE
    /\ topic_arg' = NoTopic
    /\ facts_at_call' = facts_data'
    /\ file_at_call' = facts_file
    /\ pcS' = "idle"
    /\ UNCHANGED <<facts_file, notS>>

\* generate_script(topic), lines 76-103: the topic is settled
CallGenerateScript ==
    /\ pcS \in {"idle", "returned", "raised"}
    /\ TotalStored(facts_data) < MaxStored
    /\ \E arg \in {NoTopic} \cup Range(AVAILABLE_TOPICS) \cup CustomTopics :
           /\ topic_arg' = arg
           /\ IF arg = NoTopic
              THEN /\ \E k \in 1..Len(topics) : topic' = topics[k]
                   /\ UNCHANGED topics
              ELSE /\ topic' = arg
                   /\ topics' = IF arg \in Range(topics) THEN topics
                                ELSE Append(topics, arg)
    /\ facts_at_call' = facts_data
    /\ file_at_call' = facts_file
    /\ attempt' = 0
    /\ script_data' = NoScript
    /\ api_calls' = <<>>
    /\ good_unreturned' = FALSE
    /\ pcS' = "loop"
    /\ UNCHANGED <<facts_data, facts_file, notS>>

\* the end of an attempt that did not return: the except clause re-raises on
\* the last attempt, an attempt without exception falls out of the loop
\* into the final raise
AfterFailedAttempt ==
    IF attempt = MAX_RETRIES - 1
    THEN attempt' = attempt /\ pcS' = "raised"
    ELSE attempt' = attempt + 1 /\ pcS' = "loop"

\* the API raises, or answers without choices ("Empty response from API")
AttemptApiError ==
    /\ pcS = "loop"
    /\ \E r \in ApiOutcomes :
           /\ r.kind \in {"exception", "empty"}
           /\ api_calls' = Append(api_calls, topic)
    /\ AfterFailedAttempt
    /\ UNCHANGED <<topics, facts_data, facts_file, topic, script_data,
                   good_unreturned, topic_arg, facts_at_call, file_at_call, notS>>

\* a part is missing: "continue"
AttemptMissingParts ==
    /\ pcS = "loop"
    /\ \E r \in ApiOutcomes :
           /\ r.kind = "content"
           /\ ~HasAllParts(ParseScriptContent(r.content, EmptyDict))
           /\ api_calls' = Append(api_calls, topic)
    /\ AfterFailedAttempt
    /\ UNCHANGED <<topics, facts_data, facts_file, topic, script_data,
                   good_unreturned, topic_arg, facts_at_call, file_at_call, notS>>

\* the fact is too similar to a stored one
AttemptDuplicate ==
    /\ pcS = "loop"
    /\ \E r \in ApiOutcomes :
           /\ r.kind = "content"
           /\ LET script_parts == ParseScriptContent(r.content, EmptyDict) IN
              /\ HasAllParts(script_parts)
              /\ IsFactDuplicate(facts_data, script_parts["fact"], topic)
           /\ api_calls' = Append(api_calls, topic)
    /\ AfterFailedAttempt
    /\ UNCHANGED <<topics, facts_data, facts_file, topic, script_data,
                   good_unreturned, topic_arg, facts_at_call, file_at_call, notS>>

\* a complete script with a new fact: it is stored, saved and returned
AttemptReturn ==
    /\ pcS = "loop"
    /\ TotalStored(facts_data) < MaxStored    \* bound on the history
    /\ \E r \in ApiOutcomes :
           /\ r.kind = "content"
           /\ LET script_parts == ParseScriptContent(r.content, EmptyDict) IN
              /\ HasAllParts(script_parts)
              /\ ~IsFactDuplicate(facts_data, script_parts["fact"], topic)
              /\ facts_data' = AppendEntry(facts_data, topic, script_parts["fact"])
              /\ script_data' = [topic |-> topic, fact |-> script_parts["fact"]]
           /\ api_calls' = Append(api_calls, topic)
    /\ facts_file' = JsonFile(facts_data')
    /\ pcS' = "returned"
    /\ UNCHANGED <<topics, topic, attempt, good_unreturned, topic_arg,
                   facts_at_call, file_at_call, notS>>

\* a complete script with a new fact, but save_facts raises (the file cannot
\* be opened or written): the entry stays in self.facts_data and the except
\* clause treats the attempt as failed
AttemptSaveFails ==
    /\ pcS = "loop"
    /\ TotalStored(facts_data) < MaxStored    \* bound on the history
    /\ \E r \in ApiOutcomes :
           /\ r.kind = "content"
           /\ LET script_parts == ParseScriptContent(r.content, EmptyDict) IN
              /\ HasAllParts(script_parts)
              /\ ~IsFactDuplicate(facts_data, script_parts["fact"], topic)
              /\ facts_data' = AppendEntry(facts_data, topic, script_parts["fact"])
           /\ api_calls' = Append(api_calls, topic)
    /\ facts_file' \in FailedSaveFiles(facts_file)
    /\ good_unreturned' = TRUE
    /\ AfterFailedAttempt
    /\ UNCHANGED <<topics, topic, script_data, topic_arg, facts_at_call,
                   file_at_call, notS>>

(***************************************************************************)
(* The run: main, YouTubePipeline.run_pipeline (src/pipeline.py) and       *)
(* VideoCreator.create_youtube_short                                       *)
(***************************************************************************)
File(base, ext) == [base |-> base, ext |-> ext]

\* files the input folder may hold
FolderFiles ==
    { File("background", ".mp4"), File("background", ".mov"),
      File("clip", ".mkv"), File("notes", ".txt") }

video_extensions == <<".mp4", ".avi", ".mov", ".mkv", ".wmv">>

\* background_video_name: a file name, or "random"
RandomName == File("random", "")
VideoNames == {File("background", ".mp4"), RandomName}

NoPath == File("", "")

\* (mutant: the "raise FileNotFoundError" of the named branch is lost and the
\* joined path is returned whether or not it exists)
BackgroundVideoPathsMutant(folder, video_name) ==
    IF video_name = RandomName
    THEN {f \in folder : f.ext \in Range(video_extensions)}
    ELSE IF video_name \in folder THEN {video_name}
    ELSE LET found == {k \in 1..Len(video_extensions) :
                          File(video_name.base, video_extensions[k]) \in folder}
         IN  IF found = {} THEN {video_name}
             ELSE LET k == CHOOSE x \in found : \A y \in found : x <= y
                  IN  {File(video_name.base, video_extensions[k])}

\* get_background_video_path: the paths it can return, none when it raises
BackgroundVideoPaths(folder, video_name) ==
    IF video_name = RandomName
    THEN {f \in folder : f.ext \in Range(video_extensions)}
    ELSE IF video_name \in folder THEN {video_name}
    ELSE LET found == {k \in 1..Len(video_extensions) :
                          File(video_name.base, video_extensions[k]) \in folder}
         IN  IF found = {} THEN {}
             ELSE LET k == CHOOSE x \in found : \A y \in found : x <= y
                  IN  {File(video_name.base, video_extensions[k])}

\* the statements of the try block of create_youtube_short that can raise
VideoSteps ==
    << "load_whisper", "load_background", "load_audio", "transcribe",
       "framing", "subtitles", "composite", "render", "close" >>

IdlePipeline ==
    /\ config = [gemini_api_key |-> FALSE, background_video_name |-> RandomName]
    /\ input_folder = {} /\ background_video_path = NoPath /\ vstep = 0
    /\ success = "unset" /\ result = "unset" /\ exit_status = "running"
    /\ pcP = "off" /\ calls = <<>> /\ failed_at = "none"
    /\ interrupted = FALSE /\ video_written = FALSE

\* "except Exception" of run_pipeline: print and return None
RunFails(stage) ==
    /\ failed_at' = stage
    /\ result' = "None"
    /\ pcP' = "main_result"

\* pipeline = YouTubePipeline(): load_config and setup_directories
Construct ==
    /\ pcP = "construct"
    /\ pcP' = "validate"
    /\ UNCHANGED <<config, input_folder, background_video_path, vstep, success,
                   result, exit_status, calls, failed_at, interrupted,
                   video_written, notP>>

\* os.makedirs raises: "except Exception" of main, sys.exit(1)
ConstructFails ==
    /\ pcP = "construct"
    /\ failed_at' = "construct"
    /\ exit_status' = "1"
    /\ pcP' = "exited"
    /\ UNCHANGED <<config, input_folder, background_video_path, vstep, success,
                   result, calls, interrupted, video_written, notP>>

\* Step 1: validate_inputs returns the background video
ValidateInputs ==
    /\ pcP = "validate"
    /\ calls' = Append(calls, "validate")
    /\ config.gemini_api_key
    /\ \E path \in BackgroundVideoPaths(input_folder, config.background_video_name) :
           background_video_path' = path
    /\ pcP' = "script"
    /\ UNCHANGED <<config, input_folder, vstep, success, result, exit_status,
                   failed_at, interrupted, video_written, notP>>

\* Step 1 raises: no API key, or no background video
ValidateInputsFails ==
    /\ pcP = "validate"
    /\ calls' = Append(calls, "validate")
    /\ \/ ~config.gemini_api_key
       \/ BackgroundVideoPaths(input_folder, config.background_video_name) = {}
    /\ RunFails("validate")
    /\ UNCHANGED <<config, input_folder, background_video_path, vstep, success,
                   exit_status, interrupted, video_written, notP>>

\* Step 2: ScriptGenerator(...).generate_script(topic) returns a script
GenerateScript ==
    /\ pcP = "script"
    /\ calls' = Append(calls, "script")
    /\ pcP' = "tts"
    /\ UNCHANGED <<config, input_folder, background_video_path, vstep, success,
                   result, exit_status, failed_at, interrupted, video_written, notP>>

\* Step 2 raises (the retries are used up, or the client cannot be built)
GenerateScriptFails ==
    /\ pcP = "script"
    /\ calls' = Append(calls, "script")
    /\ RunFails("script")
    /\ UNCHANGED <<config, input_folder, background_video_path, vstep, success,
                   exit_status, interrupted, video_written, notP>>

\* Step 3: await communicate.save(temp_audio_path)
SynthesizeSpeech ==
    /\ pcP = "tts"
    /\ calls' = Append(calls, "tts")
    /\ vstep' = 1
    /\ pcP' = "video"
    /\ UNCHANGED <<config, input_folder, background_video_path, success, result,
                   exit_status, failed_at, interrupted, video_written, notP>>

\* Step 3 raises
SynthesizeSpeechFails ==
    /\ pcP = "tts"
    /\ calls' = Append(calls, "tts")
    /\ RunFails("tts")
    /\ UNCHANGED <<config, input_folder, background_video_path, vstep, success,
                   exit_status, interrupted, video_written, notP>>

\* Step 4, create_youtube_short: one statement of the try block completes;
\* after the last one the method returns True
VideoStep ==
    /\ pcP = "video"
    /\ calls' = Append(calls, VideoSteps[vstep])
    /\ video_written' = (video_written \/ VideoSteps[vstep] = "render")
    /\ IF vstep = Len(VideoSteps)
       THEN success' = "True" /\ pcP' = "after_video" /\ vstep' = vstep
       ELSE success' = success /\ pcP' = pcP /\ vstep' = vstep + 1
    /\ UNCHANGED <<config, input_folder, background_video_path, result,
                   exit_status, failed_at, interrupted, notP>>

\* a statement of the try block raises: "except Exception", return False
VideoStepFails ==
    /\ pcP = "video"
    /\ calls' = Append(calls, VideoSteps[vstep])
    /\ failed_at' = VideoSteps[vstep]
    /\ success' = "False"
    /\ pcP' = "after_video"
    /\ UNCHANGED <<config, input_folder, background_video_path, vstep, result,
                   exit_status, interrupted, video_written, notP>>

\* (mutant: the return value of create_youtube_short is not looked at)
RunResultMutant(ok, cleaned) == IF cleaned THEN "final_video_path" ELSE "None"
\* "if success: ... return final_video_path / else: raise", and the except
\* clause's "return None"; cleaned: the temporary audio could be removed
RunResult(ok, cleaned) ==
    IF ok = "True" /\ cleaned THEN "final_video_path" ELSE "None"

\* lines 161-181: the end of run_pipeline
FinishRun ==
    /\ pcP = "after_video"
    /\ \E cleaned \in BOOLEAN :
           /\ result' = RunResult(success, cleaned)
           /\ failed_at' = IF success = "True" /\ ~cleaned THEN "cleanup"
                           ELSE failed_at
    /\ pcP' = "main_result"
    /\ UNCHANGED <<config, input_folder, background_video_path, vstep, success,
                   exit_status, calls, interrupted, video_written, notP>>

\* "if result: ... else: sys.exit(1)"; main returning is exit status 0
ExitStatus(res) == IF res = "final_video_path" THEN "0" ELSE "1"

\* lines 192-197
MainExit ==
    /\ pcP = "main_result"
    /\ exit_status' = ExitStatus(result)
    /\ pcP' = "exited"
    /\ UNCHANGED <<config, input_folder, background_video_path, vstep, success,
                   result, calls, failed_at, interrupted, video_written, notP>>

\* KeyboardInterrupt while the run is under way: no "except Exception"
\* catches it, main prints and calls sys.exit(1)
Interrupt ==
    /\ pcP \in {"construct", "validate", "script", "tts", "video", "after_video"}
    /\ interrupted' = TRUE
    /\ exit_status' = "1"
    /\ pcP' = "exited"
    /\ UNCHANGED <<config, input_folder, background_video_path, vstep, success,
                   result, calls, failed_at, video_written, notP>>

(***************************************************************************)
(* Subtitle clips: the loop of VideoCreator._create_vibrant_subtitles over *)
(* the TimedCues and _create_safe_text_clip (src/utils/video_creator.py).  *)
(* Whether a TextClip call raises is up to the renderer and the fonts of   *)
(* the machine: either outcome is possible at every call.                  *)
(***************************************************************************)
MaxClipCues == 2

\* self.safe_fonts; "None" is the default system font
safe_fonts == <<"None", "Arial", "DejaVu-Sans", "Helvetica", "Liberation-Sans">>

\* a TimedCue of fixed_segments
TimedCue(t, start) == [text |-> t, start |-> start, duration |-> MinDisplayTime]

\* the clip a TextClip call gives, positioned, with start and duration set;
\* stroke: stroke_color and stroke_width are passed
TextClipOf(segment, font, stroke) ==
    [text |-> segment.text, start |-> segment.start,
     duration |-> segment.duration, font |-> font, stroke |-> stroke]

\* the None of "return None"
NoClip == [text |-> "", start |-> 0, duration |-> 0, font |-> "", stroke |-> FALSE]

\* (mutant: the clip is appended without the "if txt_clip:" test)
AppendIfClipMutant(clips, txt_clip) == Append(clips, txt_clip)
\* "if txt_clip: subtitle_clips.append(txt_clip)"
AppendIfClip(clips, txt_clip) ==
    IF txt_clip # NoClip THEN Append(clips, txt_clip) ELSE clips

\* the history with one more TextClip call of the cue in progress
Logged(font, stroke, ok) ==
    [tried EXCEPT ![cue_index] = Append(@, [font |-> font, stroke |-> stroke, ok |-> ok])]

\* _create_safe_text_clip has returned: the next iteration of "for segment in
\* fixed_segments", or "return subtitle_clips" after the last one
NextSegment(logged) ==
    IF cue_index < Len(timed_cues)
    THEN /\ cue_index' = cue_index + 1
         /\ font_index' = 1
         /\ tried' = Append(logged, <<>>)
         /\ pcC' = "fonts"
    ELSE /\ cue_index' = cue_index
         /\ font_index' = font_index
         /\ tried' = logged
         /\ pcC' = "returned"

IdleClips ==
    /\ timed_cues = <<>> /\ cue_index = 0 /\ font_index = 0
    /\ subtitle_clips = <<>> /\ pcC = "idle" /\ tried = <<>> /\ warnings = <<>>

\* one more cue comes out of _fix_timing_overlaps
AddTimedCue ==
    /\ pcC = "input"
    /\ Len(timed_cues) < MaxClipCues
    /\ \E t \in CueTexts :
           timed_cues' = Append(timed_cues,
                                TimedCue(t, Len(timed_cues) * MinDisplayTime))
    /\ UNCHANGED <<cue_index, font_index, subtitle_clips, pcC, tried, warnings, notC>>

\* "for segment in fixed_segments:" is entered
CallCreateVibrantSubtitles ==
    /\ pcC = "input"
    /\ subtitle_clips' = <<>>
    /\ IF timed_cues = <<>>
       THEN pcC' = "returned" /\ UNCHANGED <<cue_index, font_index, tried>>
       ELSE /\ cue_index' = 1 /\ font_index' = 1
            /\ tried' = <<<<>>>>
            /\ pcC' = "fonts"
    /\ UNCHANGED <<timed_cues, warnings, notC>>

\* lines 270-290: TextClip with the full style and safe_fonts[font_index]
\* succeeds and the clip is returned
TextClipWithFont ==
    /\ pcC = "fonts"
    /\ subtitle_clips' =
           AppendIfClip(subtitle_clips,
                        TextClipOf(timed_cues[cue_index], safe_fonts[font_index], TRUE))
    /\ NextSegment(Logged(safe_fonts[font_index], TRUE, TRUE))
    /\ UNCHANGED <<timed_cues, warnings, notC>>

\* lines 292-293: it raises, "except Exception: continue"; after the last
\* font the loop is left
TextClipWithFontRaises ==
    /\ pcC = "fonts"
    /\ tried' = Logged(safe_fonts[font_index], TRUE, FALSE)
    /\ IF font_index < Len(safe_fonts)
       THEN font_index' = font_index + 1 /\ pcC' = pcC
       ELSE font_index' = font_index /\ pcC' = "minimal"
    /\ UNCHANGED <<timed_cues, cue_index, subtitle_clips, warnings, notC>>

\* lines 296-308: TextClip without font and without stroke succeeds
TextClipMinimal ==
    /\ pcC = "minimal"
    /\ subtitle_clips' =
           AppendIfClip(subtitle_clips,
                        TextClipOf(timed_cues[cue_index], safe_fonts[1], FALSE))
    /\ NextSegment(Logged(safe_fonts[1], FALSE, TRUE))
    /\ UNCHANGED <<timed_cues, warnings, notC>>

\* lines 310-312: it raises too: the warning is printed, None is returned
TextClipMinimalRaises ==
    /\ pcC = "minimal"
    /\ warnings' = Append(warnings, cue_index)
    /\ subtitle_clips' = AppendIfClip(subtitle_clips, NoClip)
    /\ NextSegment(Logged(safe_fonts[1], FALSE, FALSE))
    /\ UNCHANGED <<timed_cues, notC>>

(***************************************************************************)
(* Specifications                                                          *)
(***************************************************************************)
InitGroups ==
    /\ words = <<>> /\ groups = <<>> /\ pcG = "input"
    /\ IdleTiming /\ IdleWrap /\ IdleFraming /\ IdleScript /\ IdlePipeline /\ IdleClips
NextGroups == AddWord \/ CallCreateWordGroups
SpecGroups == InitGroups /\ [][NextGroups]_vars

InitTiming ==
    /\ segments = <<>> /\ fixed_segments = <<>> /\ pcT = "input"
    /\ IdleGroups /\ IdleWrap /\ IdleFraming /\ IdleScript /\ IdlePipeline /\ IdleClips
NextTiming == AddFirstCue \/ AddNextCue \/ CallFixTimingOverlaps
SpecTiming == InitTiming /\ [][NextTiming]_vars

InitWrap ==
    /\ text = <<>> /\ max_chars_per_line = 0 /\ wrapped_text = <<>> /\ pcW = "input"
    /\ IdleGroups /\ IdleTiming /\ IdleFraming /\ IdleScript /\ IdlePipeline /\ IdleClips
NextWrap == AddChar \/ CallSmartTextWrap
SpecWrap == InitWrap /\ [][NextWrap]_vars

InitFraming ==
    /\ background_duration = 0 /\ required_duration = 0
    /\ random_start = NoStart /\ framed = <<>> /\ pcF = "input"
    /\ IdleGroups /\ IdleTiming /\ IdleWrap /\ IdleScript /\ IdlePipeline /\ IdleClips
NextFraming == LoadClips \/ ResizeLoop \/ ResizeSubclip
SpecFraming == InitFraming /\ [][NextFraming]_vars

InitScript ==
    /\ topics = <<>> /\ facts_data = EmptyDict /\ facts_file = MissingFile
    /\ topic = NoTopic /\ attempt = 0 /\ script_data = NoScript /\ pcS = "start"
    /\ api_calls = <<>> /\ good_unreturned = FALSE
    /\ topic_arg = NoTopic /\ facts_at_call = EmptyDict /\ file_at_call = MissingFile
    /\ IdleGroups /\ IdleTiming /\ IdleWrap /\ IdleFraming /\ IdlePipeline /\ IdleClips
NextScript ==
    \/ NewGenerator \/ CallGenerateScript
    \/ AttemptApiError \/ AttemptMissingParts \/ AttemptDuplicate
    \/ AttemptReturn \/ AttemptSaveFails
SpecScript == InitScript /\ [][NextScript]_vars

InitPipeline ==
    /\ config \in [gemini_api_key : BOOLEAN, background_video_name : VideoNames]
    /\ input_folder \in SUBSET FolderFiles
    /\ background_video_path = NoPath /\ vstep = 0
    /\ success = "unset" /\ result = "unset" /\ exit_status = "running"
    /\ pcP = "construct" /\ calls = <<>> /\ failed_at = "none"
    /\ interrupted = FALSE /\ video_written = FALSE
    /\ IdleGroups /\ IdleTiming /\ IdleWrap /\ IdleFraming /\ IdleScript /\ IdleClips
NextPipeline ==
    \/ Construct \/ ConstructFails
    \/ ValidateInputs \/ ValidateInputsFails
    \/ GenerateScript \/ GenerateScriptFails
    \/ SynthesizeSpeech \/ SynthesizeSpeechFails
    \/ VideoStep \/ VideoStepFails
    \/ FinishRun \/ MainExit \/ Interrupt
SpecPipeline == InitPipeline /\ [][NextPipeline]_vars

InitClips ==
    /\ timed_cues = <<>> /\ cue_index = 0 /\ font_index = 0
    /\ subtitle_clips = <<>> /\ pcC = "input" /\ tried = <<>> /\ warnings = <<>>
    /\ IdleGroups /\ IdleTiming /\ IdleWrap /\ IdleFraming /\ IdleScript /\ IdlePipeline
NextClips ==
    \/ AddTimedCue \/ CallCreateVibrantSubtitles
    \/ TextClipWithFont \/ TextClipWithFontRaises
    \/ TextClipMinimal \/ TextClipMinimalRaises
SpecClips == InitClips /\ [][NextClips]_vars

(***************************************************************************)
(* Claims about Word Grouping (SpecGroups)                                 *)
(***************************************************************************)
GroupsDone == pcG = "done"

\* C1: the groups returned by _create_word_groups, concatenated in order,
\* are exactly the input words; every group has 1 to 7 words; no words give
\* no groups.
C1_GroupingCompleteness ==
    GroupsDone =>
        /\ Flatten(groups) = words
        /\ \A k \in 1..Len(groups) : Len(groups[k]) >= 1 /\ Len(groups[k]) <= 7
        /\ (words = <<>> => groups = <<>>)

\* C1 witness: a full segment was split into a group of 7 and a leftover
C1_Witness ==
    /\ GroupsDone
    /\ Len(words) = MaxWords
    /\ Len(groups) = 2
    /\ Len(groups[1]) = 7
    /\ \A j \in 4..7 : ~EndsWithPunctuation(words[j]) \/ j = 7

\* the trimmed text of w ends with one of . ! ? ,
TrimmedEndsInPunct(w) ==
    LET t == Strip(w.word) IN t # <<>> /\ t[Len(t)] \in {".", "!", "?", ","}

TimingDone == pcT = "done"

SortedByStart(segs) ==
    \A i \in 1..(Len(segs) - 1) : segs[i].start <= segs[i + 1].start

EndOf(cue) == cue.start + cue.duration

C4_SameCuesSameStarts ==
    TimingDone =>
        /\ Len(fixed_segments) = Len(segments)
        /\ \A i \in 1..Len(segments) :
               /\ fixed_segments[i].text = segments[i].text
               /\ fixed_segments[i].start = segments[i].start
        /\ (segments = <<>> => fixed_segments = <<>>)

\* C4 witness: two cues with different texts, the second starting inside the
\* minimum display of the first
C4_Witness ==
    /\ TimingDone
    /\ Len(segments) = 2
    /\ segments[1].text # segments[2].text
    /\ segments[2].start - segments[1].start = 3
    /\ fixed_segments[2].start = 3

\* C5: every duration is at least 0.5 s; with a successor that starts at
\* least min_display_time + min_gap_between_text later, it is at least
\* min_display_time.
C5_DurationFloors ==
    TimingDone =>
        \A i \in 1..Len(fixed_segments) :
            /\ fixed_segments[i].duration >= 5
            /\ (i < Len(segments)
                /\ segments[i + 1].start - segments[i].start >= 10 + 1)
                   => fixed_segments[i].duration >= 10

\* C5 witness: a zero-length raw cue with slack before its successor, and a
\* cue whose shrink step hit the 0.5 s floor
C5_Witness ==
    /\ TimingDone
    /\ Len(segments) = 2
    /\ \/ /\ segments[1].end = segments[1].start
          /\ segments[2].start - segments[1].start >= 11
       \/ /\ segments[2].start - segments[1].start = 3
          /\ ShrinkForNext(segments, 1, IdealDuration(segments[1])) = ShrinkFloor

\* the raw cue, clamped to the display limits, reaches past the point
\* min_gap_between_text before its successor's start
HadToShrink(i) ==
    segments[i].start
        + Max(MinDisplayTime, Min(MaxDisplayTime, segments[i].end - segments[i].start))
    > segments[i + 1].start - MinGapBetweenText

\* C15: a cue whose successor starts at least min_display_time +
\* min_gap_between_text after it ends no later than min_gap_between_text
\* before the successor's raw start, and exactly there when the raw cue had
\* to be shrunk.
C15_EndsBeforeSuccessor ==
    TimingDone =>
        \A i \in 1..(Len(fixed_segments) - 1) :
            (segments[i + 1].start - segments[i].start
                 >= MinDisplayTime + MinGapBetweenText) =>
                /\ EndOf(fixed_segments[i])
                       <= segments[i + 1].start - MinGapBetweenText
                /\ HadToShrink(i) =>
                       EndOf(fixed_segments[i])
                           = segments[i + 1].start - MinGapBetweenText

\* C15 witness: a raw cue of 3.5 s whose successor starts 2.1 s after it was
\* shrunk to 2.0 s
C15_Witness ==
    /\ TimingDone
    /\ Len(segments) = 2
    /\ segments[2].start - segments[1].start = 21
    /\ segments[1].end - segments[1].start = 35
    /\ HadToShrink(1)
    /\ fixed_segments[1].duration = 20

\* C16: every TimedCue, whatever the raw cues (zero or negative length, a
\* successor starting at or before the cue), has a duration of at least
\* 1.0 s and at most 3.0 s; the 0.5 s floor of the shrink step is never the
\* duration of a TimedCue.
C16_DurationRange ==
    TimingDone =>
        \A i \in 1..Len(fixed_segments) :
            /\ fixed_segments[i].duration >= 10
            /\ fixed_segments[i].duration <= 30
            /\ fixed_segments[i].duration # 5

\* C16 witness: a raw cue of negative length whose successor starts before
\* it: the shrink step gave 0.5 s and the TimedCue lasts 1.0 s
C16_Witness ==
    /\ TimingDone
    /\ Len(segments) = 2
    /\ segments[1].end < segments[1].start
    /\ segments[2].start < segments[1].start
    /\ ShrinkForNext(segments, 1, IdealDuration(segments[1])) = ShrinkFloor
    /\ fixed_segments[1].duration = 10

(***************************************************************************)
(* Claims about the Text Wrapper (SpecWrap)                                *)
(***************************************************************************)
WrapDone == pcW = "done"

RECURSIVE SplitOn(_, _)
\* str.split(sep) for a one-character separator
SplitOn(s, sep) ==
    IF \A i \in 1..Len(s) : s[i] # sep THEN <<s>>
    ELSE LET k == CHOOSE i \in 1..Len(s) :
                      s[i] = sep /\ \A j \in 1..(i - 1) : s[j] # sep
         IN  <<SubSeq(s, 1, k - 1)>> \o SplitOn(SubSeq(s, k + 1, Len(s)), sep)

RECURSIVE WordsOfLines(_)
WordsOfLines(lines) ==
    IF lines = <<>> THEN <<>> ELSE SplitWords(Head(lines)) \o WordsOfLines(Tail(lines))

\* C6: the words of the returned lines, read in order, are the words of the
\* text; a line of more than one word is no longer than max_chars_per_line;
\* a line is longer only when it is one word that is itself longer.
C6_WrapFidelity ==
    WrapDone =>
        LET lines == SplitOn(wrapped_text, "\n") IN
        /\ WordsOfLines(lines) = SplitWords(text)
        /\ \A k \in 1..Len(lines) :
               /\ Len(SplitWords(lines[k])) > 1 => Len(lines[k]) <= max_chars_per_line
               /\ Len(lines[k]) > max_chars_per_line => SplitWords(lines[k]) = <<lines[k]>>

\* C6 witness: a text wrapped into a line of two words and a line made of
\* one word longer than the limit
C6_Witness ==
    /\ WrapDone
    /\ LET lines == SplitOn(wrapped_text, "\n") IN
       /\ Len(lines) = 2
       /\ Len(SplitWords(lines[1])) = 2
       /\ Len(lines[2]) > max_chars_per_line

(***************************************************************************)
(* Claims about Background Framing (SpecFraming)                           *)
(***************************************************************************)
FramingDone == pcF = "done"

\* C7: with D >= T the offset satisfies 0 <= offset and offset + T <= D (and
\* is 0 when D = T) and the output is the slice [offset, offset + T); with
\* D < T no offset is chosen and the source is looped to T; the output
\* duration is T either way.
C7_BackgroundWindow ==
    FramingDone =>
        LET D == background_duration
            T == required_duration
        IN  /\ D >= T =>
                   /\ random_start # NoStart
                   /\ 0 <= random_start
                   /\ random_start + T <= D
                   /\ (D = T => random_start = 0)
                   /\ framed.kind = "subclip"
                   /\ framed.from = random_start
                   /\ framed.to = random_start + T
            /\ D < T =>
                   /\ random_start = NoStart
                   /\ framed.kind = "loop"
            /\ framed.duration = T

\* C7 witness: the latest start the source allows was drawn
C7_Witness ==
    /\ FramingDone
    /\ background_duration > required_duration
    /\ random_start > 0
    /\ random_start + required_duration = background_duration

(***************************************************************************)
(* Claims about script generation (SpecScript)                             *)
(***************************************************************************)
InCall == pcS \in {"loop", "returned", "raised"}

\* C8 as stated: a call makes at most MAX_RETRIES (3) attempts, all for the
\* topic chosen before the first; it returns at the first attempt that gives
\* all four parts with a fact that is no duplicate; when none of 3 attempts
\* does, it raises and returns no script.
C8_RetryAsStated ==
    InCall =>
        /\ Len(api_calls) <= 3
        /\ \A k \in 1..Len(api_calls) : api_calls[k] = topic
        /\ ~good_unreturned
        /\ pcS = "loop" => Len(api_calls) < 3 /\ script_data = NoScript
        /\ pcS = "returned" => script_data # NoScript /\ script_data.topic = topic
        /\ pcS = "raised" => Len(api_calls) = 3 /\ script_data = NoScript

\* The part of C8 that the code keeps: the bound on the attempts, the one
\* topic, a return only with a script, a raise only after the last attempt.
C8_RetryBound ==
    InCall =>
        /\ Len(api_calls) <= 3
        /\ \A k \in 1..Len(api_calls) : api_calls[k] = topic
        /\ pcS = "loop" => Len(api_calls) < 3 /\ script_data = NoScript
        /\ pcS = "returned" => script_data # NoScript /\ script_data.topic = topic
        /\ pcS = "raised" => Len(api_calls) = 3 /\ script_data = NoScript

\* the lower-cased, whitespace-split word sets of the facts
LowerWords == [f \in FactTexts |-> Range(SplitWords(Lower(f)))]

\* Jaccard similarity of a and b greater than 0.7
JaccardAbove(a, b) ==
    10 * Cardinality(LowerWords[a] \cap LowerWords[b])
        > 7 * Cardinality(LowerWords[a] \cup LowerWords[b])

NoNearDuplicates(data) ==
    \A t \in DOMAIN data :
        \A i, j \in 1..Len(data[t]) :
            i < j => ~JaccardAbove(data[t][i].fact, data[t][j].fact)

C13_AppendOnlyAsStated ==
    /\ pcS = "returned" =>
           /\ DOMAIN facts_data = (DOMAIN facts_at_call) \cup {topic}
           /\ \A t \in (DOMAIN facts_at_call) \ {topic} :
                  facts_data[t] = facts_at_call[t]
           /\ facts_data[topic] =
                  Append(EntriesOf(facts_at_call, topic), [fact |-> script_data.fact])
    /\ pcS = "raised" =>
           /\ facts_data = facts_at_call
           /\ facts_file = file_at_call

\* C14 as stated: a call without topic picks a topic of Config.AVAILABLE_TOPICS
\* as defined in config.py, whatever calls were made before it in the process.
C14_PickFromFixedList ==
    (InCall /\ topic_arg = NoTopic) => topic \in Range(AVAILABLE_TOPICS)

(***************************************************************************)
(* Claims about the run (SpecPipeline)                                     *)
(***************************************************************************)
Exited == pcP = "exited"

StageOfRun == {"validate", "script", "tts"}

StageOrder ==
    << "validate", "script", "tts", "transcribe", "subtitles", "composite",
       "render" >>

IsStage(c) == c \in Range(StageOrder)

\* the stages among the calls made so far, in the order they were started
StagesStarted == SelectSeq(calls, IsStage)

\* the configuration names no API key, or no background video can be found
\* in the input folder under the configured name
ConfigurationError ==
    \/ ~config.gemini_api_key
    \/ ~\E f \in input_folder :
           /\ f.ext \in Range(video_extensions)
           /\ \/ config.background_video_name = RandomName
              \/ f.base = config.background_video_name.base

\* C11: the stages of one run start in the order input validation, script
\* generation, speech synthesis, transcription, subtitle computation,
\* composition and render, each one only after the stages before it were
\* started and none of them failed; no stage starts after a stage failed;
\* with a configuration error (no API key, no background video) nothing is
\* started but the validation.
C11_StageOrder ==
    /\ Len(StagesStarted) <= Len(StageOrder)
    /\ StagesStarted = SubSeq(StageOrder, 1, Len(StagesStarted))
    /\ (failed_at \in Range(calls)) => Last(calls) = failed_at
    /\ (pcP # "off" /\ ConfigurationError) =>
           /\ calls \in {<<>>, <<"validate">>}
           /\ pcP \notin {"script", "tts", "video", "after_video"}

\* C11 witness: the API key is set but the folder holds no video under the
\* configured name; the run stopped at the validation and the process exited
C11_Witness ==
    /\ Exited
    /\ config.gemini_api_key
    /\ config.background_video_name # RandomName
    /\ input_folder # {}
    /\ ConfigurationError
    /\ failed_at = "validate"
    /\ calls = <<"validate">>


(***************************************************************************)
(* Claims about the subtitle clips (SpecClips)                             *)
(***************************************************************************)
\* the renderer configurations in the order of the fallback: the five fonts
\* with the outline, then the default font without it
RendererConfigurations ==
    << [font |-> "None", stroke |-> TRUE],
       [font |-> "Arial", stroke |-> TRUE],
       [font |-> "DejaVu-Sans", stroke |-> TRUE],
       [font |-> "Helvetica", stroke |-> TRUE],
       [font |-> "Liberation-Sans", stroke |-> TRUE],
       [font |-> "None", stroke |-> FALSE] >>

\* a configuration succeeded for the i-th cue
CueRendered(i) == \E k \in 1..Len(tried[i]) : tried[i][k].ok

\* the cues with a successful configuration, in their original order
RenderedCues == SelectSeq([i \in 1..Len(tried) |-> i], CueRendered)

\* C12: for each cue the configurations are tried in the fixed order (the
\* fonts of safe_fonts with the full style, then the variant without
\* outline) up to the first that succeeds, whose clip is returned; a cue is
\* dropped, with a warning, only when all of them failed; a dropped cue does
\* not end the loop: when the method returns every cue was processed and the
\* clips are those of the cues with a successful configuration, in order.
C12_FontFallback ==
    /\ \A i \in 1..Len(tried) :
           /\ Len(tried[i]) <= Len(RendererConfigurations)
           /\ \A k \in 1..Len(tried[i]) :
                  /\ tried[i][k].font = RendererConfigurations[k].font
                  /\ tried[i][k].stroke = RendererConfigurations[k].stroke
                  /\ k < Len(tried[i]) => ~tried[i][k].ok
    /\ \A j \in 1..Len(warnings) :
           /\ Len(tried[warnings[j]]) = Len(RendererConfigurations)
           /\ ~CueRendered(warnings[j])
    /\ pcC = "returned" =>
           /\ Len(tried) = Len(timed_cues)
           /\ Len(subtitle_clips) = Len(RenderedCues)
           /\ \A j \in 1..Len(RenderedCues) :
                  LET i == RenderedCues[j]
                      c == Last(tried[i])
                  IN  /\ c.ok
                      /\ subtitle_clips[j] =
                             [text |-> timed_cues[i].text,
                              start |-> timed_cues[i].start,
                              duration |-> timed_cues[i].duration,
                              font |-> c.font, stroke |-> c.stroke]
           /\ \A i \in 1..Len(tried) :
                  ~CueRendered(i) <=> \E j \in 1..Len(warnings) : warnings[j] = i

\* C12 witness: the first cue failed under all six configurations and was
\* dropped, the second one was rendered by the variant without outline, and
\* the method returned that one clip
C12_Witness ==
    /\ pcC = "returned"
    /\ Len(timed_cues) = 2
    /\ warnings = <<1>>
    /\ Len(tried[1]) = 6
    /\ Len(tried[2]) = 6
    /\ Len(subtitle_clips) = 1
    /\ subtitle_clips[1].text = timed_cues[2].text
    /\ ~subtitle_clips[1].stroke


====
